---- MODULE Spec2Model ----
(***************************************************************************)
(* TypedResponse<T, E> of reqwest-response-ext: the asynchronous variant   *)
(* (src/src/lib.rs) and the blocking variant (src/src/blocking.rs).        *)
(*                                                                         *)
(* A response handle of the HTTP client carries a status code and a body   *)
(* retrieval that yields bytes or a transport error.  Each variant         *)
(* captures the same response; the caller then reads bytes()/text() and    *)
(* finally consumes the TypedResponse with into_json() or into_result().   *)
(*                                                                         *)
(* Bytes are integers 0..255, a body is a sequence of bytes.  JSON values  *)
(* are records tagged by t; Result values are records tagged Ok / Err.     *)
(* The caller's type parameters are instantiated as T = u64 and            *)
(* E = a failure type that deserializes from a JSON array of u64 and is    *)
(* built From<serde_json::Error> by wrapping the error.                    *)
(***************************************************************************)
EXTENDS Integers, Sequences, FiniteSets, TLC

\* Longest body the client delivers.
MaxLen == 2
\* Most bytes()/text() calls a caller makes on one TypedResponse.
MaxReads == 2

\* '1'  '['  ']'  '"'  ','  ' '  and the UTF-8 pair 0xC3 0xA9 (each invalid alone)
Alphabet == {49, 91, 93, 34, 44, 32, 195, 169}

\* http::StatusCode holds 100..=999; one or more codes of every class
StatusCodes == {100, 200, 299, 300, 404, 500, 599, 600}

\* what the client's body retrieval can fail with (reqwest::Error kinds)
BodyErrors == {[t |-> "Transport", kind |-> "Body", status |-> 0],
               [t |-> "Transport", kind |-> "Timeout", status |-> 0]}

Variants == {"async", "blocking"}

Bodies == UNION {[1..n -> Alphabet] : n \in 0..MaxLen}

Min(a, b) == IF a < b THEN a ELSE b

Ok(v) == [tag |-> "Ok", val |-> v]
Err(v) == [tag |-> "Err", val |-> v]

-----------------------------------------------------------------------------
(* The HTTP client: status classification and the escalation check.        *)

\* faulty variant: everything below 300 counts as success
is_success_below_300(status) == status < 300

is_success(status) == 200 <= status /\ status < 300

is_client_error(status) == 400 <= status /\ status < 500

\* faulty variant: the lower edge of the class is missed
is_server_error_above_500(status) == 500 < status /\ status < 600

\* faulty variant: client errors are escalated as well
is_server_error_from_400(status) == 400 <= status /\ status < 600

is_server_error(status) == 500 <= status /\ status < 600

\* reqwest::Response::error_for_status_ref: Err(status error) for 4xx and 5xx
error_for_status_ref(response) ==
    IF is_client_error(response.status) \/ is_server_error(response.status)
    THEN Err([t |-> "Transport", kind |-> "Status", status |-> response.status])
    ELSE Ok([t |-> "Unit"])

-----------------------------------------------------------------------------
(* UTF-8: validation and String::from_utf8_lossy.                          *)

IsCont(b) == 128 <= b /\ b <= 191

\* width of the sequence a lead byte announces, 0 for a byte that leads nothing
Utf8Width(b) ==
    IF b < 128 THEN 1
    ELSE IF 194 <= b /\ b <= 223 THEN 2
    ELSE IF 224 <= b /\ b <= 239 THEN 3
    ELSE IF 240 <= b /\ b <= 244 THEN 4
    ELSE 0

\* the range the second byte of a sequence must lie in
SecondOk(lead, b) ==
    IF lead = 224 THEN 160 <= b /\ b <= 191
    ELSE IF lead = 237 THEN 128 <= b /\ b <= 159
    ELSE IF lead = 240 THEN 144 <= b /\ b <= 191
    ELSE IF lead = 244 THEN 128 <= b /\ b <= 143
    ELSE IsCont(b)

\* number of bytes of s, from 1-based position i, that form the longest valid
\* prefix of one encoded character (w when the character is complete)
RECURSIVE ValidRun(_, _, _, _)
ValidRun(s, i, k, w) ==
    IF k = w \/ i + k > Len(s) THEN k
    ELSE IF (k = 1 /\ SecondOk(s[i], s[i + 1])) \/ (k > 1 /\ IsCont(s[i + k]))
         THEN ValidRun(s, i, k + 1, w)
         ELSE k

U_FFFD == <<239, 191, 189>>

\* String::from_utf8_lossy, the result as its UTF-8 bytes: valid characters are
\* kept, every maximal invalid part becomes U+FFFD
RECURSIVE Lossy(_, _)
Lossy(s, i) ==
    IF i > Len(s) THEN <<>>
    ELSE LET w == Utf8Width(s[i])
             k == IF w = 0 THEN 1 ELSE ValidRun(s, i, 1, w)
         IN IF w # 0 /\ k = w
            THEN SubSeq(s, i, i + w - 1) \o Lossy(s, i + w)
            ELSE U_FFFD \o Lossy(s, i + k)

from_utf8_lossy(s) == Lossy(s, 1)

RECURSIVE Utf8Valid(_, _)
Utf8Valid(s, i) ==
    IF i > Len(s) THEN TRUE
    ELSE LET w == Utf8Width(s[i])
         IN w # 0 /\ ValidRun(s, i, 1, w) = w /\ Utf8Valid(s, i + w)

-----------------------------------------------------------------------------
(* serde_json: errors, the Value parser and from_slice.                    *)
(* idx counts the bytes consumed so far; all input is on line 1.           *)

\* Deserializer::error: the position of the last byte consumed
error(code, s, idx) ==
    [t |-> "serde_json::Error", code |-> code, line |-> 1, column |-> idx]

\* Deserializer::peek_error: the position of the byte peeked at
peek_error(code, s, idx) ==
    [t |-> "serde_json::Error", code |-> code, line |-> 1, column |-> Min(Len(s), idx + 1)]

\* impl Display for serde_json::Error
to_string(e) == e.code \o " at line " \o ToString(e.line) \o " column " \o ToString(e.column)

IsWs(b) == b \in {32, 10, 9, 13}

IsDigit(b) == 48 <= b /\ b <= 57

RECURSIVE parse_whitespace(_, _)
parse_whitespace(s, idx) ==
    IF idx < Len(s) /\ IsWs(s[idx + 1]) THEN parse_whitespace(s, idx + 1) ELSE idx

\* the digits of an unsigned integer starting at idx: its value and the new idx
RECURSIVE parse_digits(_, _, _)
parse_digits(s, idx, acc) ==
    IF idx < Len(s) /\ IsDigit(s[idx + 1])
    THEN parse_digits(s, idx + 1, acc * 10 + (s[idx + 1] - 48))
    ELSE [val |-> acc, idx |-> idx]

\* index of the closing quote of a string whose content starts at idx, or Len(s)
RECURSIVE scan_quote(_, _)
scan_quote(s, idx) ==
    IF idx >= Len(s) THEN Len(s)
    ELSE IF s[idx + 1] = 34 THEN idx
    ELSE scan_quote(s, idx + 1)

\* the string after its opening quote was eaten at idx
parse_str(s, idx) ==
    LET q == scan_quote(s, idx)
        content == SubSeq(s, idx + 1, q)
    IN IF q >= Len(s) THEN [ok |-> FALSE, err |-> error("EOF while parsing a string", s, Len(s))]
       ELSE IF ~Utf8Valid(content, 1)
            THEN [ok |-> FALSE, err |-> error("invalid unicode code point", s, q + 1)]
            ELSE [ok |-> TRUE, val |-> [t |-> "String", bytes |-> content], idx |-> q + 1]

RECURSIVE parse_value(_, _)
RECURSIVE parse_seq(_, _, _, _)

\* Deserializer::deserialize_any for the values the alphabet can spell
parse_value(s, idx0) ==
    LET idx == parse_whitespace(s, idx0)
    IN IF idx >= Len(s)
       THEN [ok |-> FALSE, err |-> peek_error("EOF while parsing a value", s, idx)]
       ELSE LET c == s[idx + 1]
            IN IF c = 34 THEN parse_str(s, idx + 1)
               ELSE IF c = 91 THEN parse_seq(s, idx + 1, TRUE, <<>>)
               ELSE IF c = 48 /\ idx + 1 < Len(s) /\ IsDigit(s[idx + 2])
                    THEN [ok |-> FALSE, err |-> peek_error("invalid number", s, idx + 1)]
               ELSE IF IsDigit(c)
                    THEN LET n == parse_digits(s, idx, 0)
                         IN [ok |-> TRUE, val |-> [t |-> "Number", n |-> n.val], idx |-> n.idx]
               ELSE [ok |-> FALSE, err |-> peek_error("expected value", s, idx)]

\* SeqAccess::next_element_seed repeated, then Deserializer::end_seq
parse_seq(s, idx0, first, acc) ==
    LET idx == parse_whitespace(s, idx0)
    IN IF idx >= Len(s)
       THEN [ok |-> FALSE, err |-> peek_error("EOF while parsing a list", s, idx)]
       ELSE LET c == s[idx + 1]
            IN IF c = 93
               THEN [ok |-> TRUE, val |-> [t |-> "Array", items |-> acc], idx |-> idx + 1]
               ELSE IF c = 44 /\ ~first
               THEN LET j == parse_whitespace(s, idx + 1)
                    IN IF j >= Len(s)
                       THEN [ok |-> FALSE, err |-> peek_error("EOF while parsing a value", s, j)]
                       ELSE IF s[j + 1] = 93
                       THEN [ok |-> FALSE, err |-> peek_error("trailing comma", s, j)]
                       ELSE LET r == parse_value(s, j)
                            IN IF r.ok THEN parse_seq(s, r.idx, FALSE, Append(acc, r.val))
                               ELSE r
               ELSE IF first
               THEN LET r == parse_value(s, idx)
                    IN IF r.ok THEN parse_seq(s, r.idx, FALSE, Append(acc, r.val))
                       ELSE r
               ELSE [ok |-> FALSE, err |-> peek_error("expected , or ]", s, idx)]

\* serde_json::from_slice::<Value>: one value, then Deserializer::end
from_slice(s) ==
    LET r == parse_value(s, 0)
    IN IF ~r.ok THEN Err(r.err)
       ELSE IF parse_whitespace(s, r.idx) < Len(s)
            THEN Err(peek_error("trailing characters", s, parse_whitespace(s, r.idx)))
            ELSE Ok(r.val)

-----------------------------------------------------------------------------
(* The caller's type parameters: T (Success) and E (Failure).              *)

IsU64Array(v) == v.t = "Array" /\ \A i \in 1..Len(v.items) : v.items[i].t = "Number"

\* serde_json::from_slice::<T> with T = u64
from_slice_T(s) ==
    LET r == from_slice(s)
    IN IF r.tag = "Err" THEN r
       ELSE IF r.val.t = "Number" THEN Ok([t |-> "T", n |-> r.val.n])
       ELSE Err(error("invalid type, expected u64", s, Len(s)))

\* serde_json::from_slice::<E> with E deserialized from an array of u64
from_slice_E(s) ==
    LET r == from_slice(s)
    IN IF r.tag = "Err" THEN r
       ELSE IF IsU64Array(r.val)
            THEN Ok([t |-> "E", kind |-> "Decoded",
                     items |-> [i \in 1..Len(r.val.items) |-> r.val.items[i].n]])
       ELSE Err(error("invalid type, expected a sequence", s, Len(s)))

\* <E as From<serde_json::Error>>::from
E_from(e) == [t |-> "E", kind |-> "FromJsonError", error |-> e]

-----------------------------------------------------------------------------
(* TypedResponse methods of the asynchronous variant, src/src/lib.rs.      *)

NoVal == [tag |-> "None"]

\* Self { body, result }
TypedResponse(body, result) == [t |-> "TypedResponse", body |-> body, result |-> result]

async_bytes(self) == [t |-> "Bytes", bytes |-> self.body]

\* faulty variant: strict decoding, an error for a body that is not UTF-8
async_text_strict(self) ==
    IF Utf8Valid(self.body, 1) THEN [t |-> "Str", utf8 |-> self.body]
    ELSE [t |-> "Utf8Error", utf8 |-> <<>>]

async_text(self) == [t |-> "Str", utf8 |-> from_utf8_lossy(self.body)]

\* the closure json_err: json! of a String expression is Value::String
async_json_err(e) == [t |-> "String", msg |-> to_string(e)]

\* `?` on Result<Value, Value> returns Err(json_err(e)) from into_json in both arms
async_into_json(self) ==
    LET parsed == from_slice(self.body)
    IN IF self.result = "Ok"
       THEN (IF parsed.tag = "Ok" THEN Ok(parsed.val) ELSE Err(async_json_err(parsed.val)))
       ELSE (IF parsed.tag = "Ok" THEN Err(parsed.val) ELSE Err(async_json_err(parsed.val)))

\* faulty variant: a decoding error of the success arm leaves unconverted
async_into_result_raw(self) ==
    IF self.result = "Ok"
    THEN LET d == from_slice_T(self.body)
         IN IF d.tag = "Ok" THEN Ok(d.val) ELSE Err(d.val)
    ELSE LET d == from_slice_E(self.body)
         IN IF d.tag = "Ok" THEN Err(d.val) ELSE Err(E_from(d.val))

\* `?` on Result<_, serde_json::Error> returns Err(E::from(e)) from into_result
async_into_result(self) ==
    IF self.result = "Ok"
    THEN LET d == from_slice_T(self.body)
         IN IF d.tag = "Ok" THEN Ok(d.val) ELSE Err(E_from(d.val))
    ELSE LET d == from_slice_E(self.body)
         IN IF d.tag = "Ok" THEN Err(d.val) ELSE Err(E_from(d.val))

\* faulty variant: the body is decoded at capture and a decoding error returned
async_capture_decoding(wire, result) ==
    IF wire.tag = "Err" THEN Err(wire.val)
    ELSE IF from_slice(wire.val).tag = "Err" THEN Err(from_slice(wire.val).val)
    ELSE Ok(TypedResponse(wire.val, result))

\* `let body = response.bytes().await?; Ok(Self { body, result })`
async_capture(wire, result) ==
    IF wire.tag = "Ok" THEN Ok(TypedResponse(wire.val, result)) ELSE Err(wire.val)

-----------------------------------------------------------------------------
(* TypedResponse methods of the blocking variant, src/src/blocking.rs.     *)

\* `let body = response.bytes()?; Ok(Self { body, result })`
blocking_capture(wire, result) ==
    IF wire.tag = "Ok" THEN Ok(TypedResponse(wire.val, result)) ELSE Err(wire.val)

blocking_bytes(self) == [t |-> "Bytes", bytes |-> self.body]

blocking_text(self) == [t |-> "Str", utf8 |-> from_utf8_lossy(self.body)]

blocking_json_err(e) == [t |-> "String", msg |-> to_string(e)]

\* faulty variant: the failure arm loses the body that did parse
blocking_into_json_dropping(self) ==
    LET parsed == from_slice(self.body)
    IN IF self.result = "Ok"
       THEN (IF parsed.tag = "Ok" THEN Ok(parsed.val) ELSE Err(blocking_json_err(parsed.val)))
       ELSE Err([t |-> "Null"])

blocking_into_json(self) ==
    LET parsed == from_slice(self.body)
    IN IF self.result = "Ok"
       THEN (IF parsed.tag = "Ok" THEN Ok(parsed.val) ELSE Err(blocking_json_err(parsed.val)))
       ELSE (IF parsed.tag = "Ok" THEN Err(parsed.val) ELSE Err(blocking_json_err(parsed.val)))

\* faulty variant: the failure arm decodes into T and returns it as Ok
blocking_into_result_as_T(self) ==
    LET d == from_slice_T(self.body)
    IN IF d.tag = "Ok" THEN Ok(d.val) ELSE Err(E_from(d.val))

blocking_into_result(self) ==
    IF self.result = "Ok"
    THEN LET d == from_slice_T(self.body)
         IN IF d.tag = "Ok" THEN Ok(d.val) ELSE Err(E_from(d.val))
    ELSE LET d == from_slice_E(self.body)
         IN IF d.tag = "Ok" THEN Err(d.val) ELSE Err(E_from(d.val))

-----------------------------------------------------------------------------
(* State.                                                                  *)

VARIABLES
    response,   \* the response handle both variants are given: status and wire
    pc,         \* per variant: start, await, failed, captured, consumed
    local,      \* per variant: `result` of try_from_response while it is suspended
    calls,      \* per variant: the calls made on the response handle, in order
    ret,        \* per variant: what try_from_response returned
    typed,      \* per variant: the TypedResponse the caller owns
    reads,      \* per variant: number of bytes()/text() calls made
    out         \* per variant: the latest value each method returned

vars == <<response, pc, local, calls, ret, typed, reads, out>>

NoOut == [bytes |-> NoVal, text |-> NoVal, json |-> NoVal, result |-> NoVal]

\* a complete response: any status, and a body retrieval that yields the bytes
\* or fails with a transport error
Responses ==
    [status : StatusCodes,
     wire : {Ok(b) : b \in Bodies} \cup {Err(e) : e \in BodyErrors}]

Init ==
    /\ response \in Responses
    /\ pc = [v \in Variants |-> "start"]
    /\ local = [v \in Variants |-> NoVal]
    /\ calls = [v \in Variants |-> <<>>]
    /\ ret = [v \in Variants |-> NoVal]
    /\ typed = [v \in Variants |-> NoVal]
    /\ reads = [v \in Variants |-> 0]
    /\ out = [v \in Variants |-> NoOut]

-----------------------------------------------------------------------------
(* Capture: try_from_response.                                             *)

\* lib.rs: everything up to the suspension at `response.bytes().await`
AsyncTryFromResponse ==
    /\ pc["async"] = "start"
    /\ LET result == IF is_success(response.status) THEN "Ok" ELSE "Err"
           bail == is_server_error(response.status)
           checked == error_for_status_ref(response)
           seen == <<"status", "status">> \o (IF bail THEN <<"error_for_status_ref">> ELSE <<>>)
       IN IF bail /\ checked.tag = "Err"
          THEN /\ pc' = [pc EXCEPT !["async"] = "failed"]
               /\ ret' = [ret EXCEPT !["async"] = Err(checked.val)]
               /\ calls' = [calls EXCEPT !["async"] = seen]
               /\ local' = local
          ELSE /\ pc' = [pc EXCEPT !["async"] = "await"]
               /\ local' = [local EXCEPT !["async"] = [tag |-> "Local", result |-> result]]
               /\ calls' = [calls EXCEPT !["async"] = Append(seen, "bytes")]
               /\ ret' = ret
    /\ UNCHANGED <<response, typed, reads, out>>

\* lib.rs: the awaited body retrieval completes; `?`, then Ok(Self { body, result })
AsyncBytesReady ==
    /\ pc["async"] = "await"
    /\ LET r == async_capture(response.wire, local["async"].result)
       IN /\ ret' = [ret EXCEPT !["async"] = r]
          /\ pc' = [pc EXCEPT !["async"] = IF r.tag = "Ok" THEN "captured" ELSE "failed"]
          /\ typed' = [typed EXCEPT !["async"] = IF r.tag = "Ok" THEN r.val ELSE NoVal]
    /\ local' = [local EXCEPT !["async"] = NoVal]
    /\ UNCHANGED <<response, calls, reads, out>>

\* blocking.rs: the whole of try_from_response, the body retrieval blocks
BlockingTryFromResponse ==
    /\ pc["blocking"] = "start"
    /\ LET result == IF is_success(response.status) THEN "Ok" ELSE "Err"
           bail == is_server_error(response.status)
           checked == error_for_status_ref(response)
           seen == <<"status", "status">> \o (IF bail THEN <<"error_for_status_ref">> ELSE <<>>)
       IN IF bail /\ checked.tag = "Err"
          THEN /\ pc' = [pc EXCEPT !["blocking"] = "failed"]
               /\ ret' = [ret EXCEPT !["blocking"] = Err(checked.val)]
               /\ calls' = [calls EXCEPT !["blocking"] = seen]
               /\ typed' = typed
          ELSE /\ calls' = [calls EXCEPT !["blocking"] = Append(seen, "bytes")]
               /\ LET r == blocking_capture(response.wire, result)
                  IN /\ ret' = [ret EXCEPT !["blocking"] = r]
                     /\ pc' = [pc EXCEPT !["blocking"] =
                                  IF r.tag = "Ok" THEN "captured" ELSE "failed"]
                     /\ typed' = [typed EXCEPT !["blocking"] =
                                  IF r.tag = "Ok" THEN r.val ELSE NoVal]
    /\ UNCHANGED <<response, local, reads, out>>

-----------------------------------------------------------------------------
(* The caller's use of a captured TypedResponse.                           *)

\* a call of a `&self` method: the value is returned, self is only borrowed
AsyncBytes ==
    /\ pc["async"] = "captured" /\ reads["async"] < MaxReads
    /\ out' = [out EXCEPT !["async"].bytes = async_bytes(typed["async"])]
    /\ reads' = [reads EXCEPT !["async"] = @ + 1]
    /\ UNCHANGED <<response, pc, local, calls, ret, typed>>

AsyncText ==
    /\ pc["async"] = "captured" /\ reads["async"] < MaxReads
    /\ out' = [out EXCEPT !["async"].text = async_text(typed["async"])]
    /\ reads' = [reads EXCEPT !["async"] = @ + 1]
    /\ UNCHANGED <<response, pc, local, calls, ret, typed>>

\* a call of a `self` method: self is moved, which ends the borrows of it
AsyncIntoJson ==
    /\ pc["async"] = "captured"
    /\ out' = [out EXCEPT !["async"] = [NoOut EXCEPT !.json = async_into_json(typed["async"])]]
    /\ typed' = [typed EXCEPT !["async"] = NoVal]
    /\ pc' = [pc EXCEPT !["async"] = "consumed"]
    /\ UNCHANGED <<response, local, calls, ret, reads>>

AsyncIntoResult ==
    /\ pc["async"] = "captured"
    /\ out' = [out EXCEPT !["async"] = [NoOut EXCEPT !.result = async_into_result(typed["async"])]]
    /\ typed' = [typed EXCEPT !["async"] = NoVal]
    /\ pc' = [pc EXCEPT !["async"] = "consumed"]
    /\ UNCHANGED <<response, local, calls, ret, reads>>

BlockingBytes ==
    /\ pc["blocking"] = "captured" /\ reads["blocking"] < MaxReads
    /\ out' = [out EXCEPT !["blocking"].bytes = blocking_bytes(typed["blocking"])]
    /\ reads' = [reads EXCEPT !["blocking"] = @ + 1]
    /\ UNCHANGED <<response, pc, local, calls, ret, typed>>

BlockingText ==
    /\ pc["blocking"] = "captured" /\ reads["blocking"] < MaxReads
    /\ out' = [out EXCEPT !["blocking"].text = blocking_text(typed["blocking"])]
    /\ reads' = [reads EXCEPT !["blocking"] = @ + 1]
    /\ UNCHANGED <<response, pc, local, calls, ret, typed>>

BlockingIntoJson ==
    /\ pc["blocking"] = "captured"
    /\ out' = [out EXCEPT !["blocking"] =
                  [NoOut EXCEPT !.json = blocking_into_json(typed["blocking"])]]
    /\ typed' = [typed EXCEPT !["blocking"] = NoVal]
    /\ pc' = [pc EXCEPT !["blocking"] = "consumed"]
    /\ UNCHANGED <<response, local, calls, ret, reads>>

BlockingIntoResult ==
    /\ pc["blocking"] = "captured"
    /\ out' = [out EXCEPT !["blocking"] =
                  [NoOut EXCEPT !.result = blocking_into_result(typed["blocking"])]]
    /\ typed' = [typed EXCEPT !["blocking"] = NoVal]
    /\ pc' = [pc EXCEPT !["blocking"] = "consumed"]
    /\ UNCHANGED <<response, local, calls, ret, reads>>

Next ==
    \/ AsyncTryFromResponse
    \/ AsyncBytesReady
    \/ BlockingTryFromResponse
    \/ AsyncBytes
    \/ AsyncText
    \/ AsyncIntoJson
    \/ AsyncIntoResult
    \/ BlockingBytes
    \/ BlockingText
    \/ BlockingIntoJson
    \/ BlockingIntoResult

Spec == Init /\ [][Next]_vars

-----------------------------------------------------------------------------
(* Properties of capture.                                                  *)

Range(f) == {f[i] : i \in DOMAIN f}

Returned(v) == pc[v] \notin {"start", "await"}

\* C1: a TypedResponse that try_from_response produced has disposition Success
\* exactly when the status was 2xx; for a status that is neither 2xx nor 5xx
\* the escalation check was not made, the body was retrieved, and the
\* TypedResponse holds disposition Failure and exactly the retrieved body.
C1_DispositionFollowsStatus ==
    \A v \in Variants :
        ret[v].tag = "Ok" =>
            /\ (ret[v].val.result = "Ok") <=> (response.status \in 200..299)
            /\ (response.status \notin 200..299 /\ response.status \notin 500..599) =>
                   /\ "error_for_status_ref" \notin Range(calls[v])
                   /\ "bytes" \in Range(calls[v])
                   /\ response.wire.tag = "Ok"
                   /\ ret[v].val = [t |-> "TypedResponse", body |-> response.wire.val,
                                    result |-> "Err"]

C1_Witness ==
    \E v \in Variants :
        /\ response.status = 404
        /\ ret[v].tag = "Ok"
        /\ ret[v].val.result = "Err"
        /\ ret[v].val.body = <<91, 93>>

\* C2: for a 5xx status, once try_from_response has run the escalation check
\* was the last call made on the response, its error is what was returned, the
\* body retrieval was never started and no TypedResponse exists.
C2_ServerErrorBailsBeforeBody ==
    \A v \in Variants :
        (response.status \in 500..599 /\ pc[v] # "start") =>
            /\ pc[v] = "failed"
            /\ calls[v] = <<"status", "status", "error_for_status_ref">>
            /\ ret[v] = [tag |-> "Err",
                         val |-> [t |-> "Transport", kind |-> "Status",
                                  status |-> response.status]]
            /\ typed[v] = NoVal

C2_Witness ==
    /\ response.status = 500
    /\ response.wire.tag = "Ok"
    /\ pc["async"] = "failed"
    /\ pc["blocking"] = "failed"

\* C7: every error try_from_response returns is the transport error the client
\* gave, unchanged: the status error of the escalation check or the error of
\* the body retrieval; no TypedResponse exists then; and a body that was
\* retrieved is captured whatever bytes it holds.
C7_OnlyTransportErrors ==
    \A v \in Variants :
        /\ ret[v].tag = "Err" =>
               /\ ret[v].val.t = "Transport"
               /\ \/ /\ response.status \in 500..599
                     /\ ret[v].val.kind = "Status"
                     /\ ret[v].val.status = response.status
                  \/ /\ response.wire.tag = "Err"
                     /\ ret[v].val = response.wire.val
               /\ typed[v] = NoVal
               /\ pc[v] = "failed"
        /\ (ret[v] # NoVal /\ response.wire.tag = "Ok" /\ response.status \notin 500..599) =>
               ret[v].tag = "Ok"

C7_Witness ==
    /\ response.status = 404
    /\ response.wire.tag = "Err"
    /\ response.wire.val.kind = "Timeout"
    /\ ret["async"] = response.wire
    /\ ret["blocking"] = response.wire

\* C9 as claimed: when the body retrieval does not fail, the capture returns no
\* error, whatever the status code.
C9_AsClaimed ==
    \A v \in Variants :
        (Returned(v) /\ response.wire.tag = "Ok") => ret[v].tag = "Ok"

\* C9, amended: when the body retrieval does not fail and the status code is
\* outside 5xx, the capture returns a TypedResponse and every bytes() and text()
\* read on it returns a value, never an error.
C9_ReaderSeesNoError ==
    \A v \in Variants :
        (Returned(v) /\ response.wire.tag = "Ok" /\ response.status \notin 500..599) =>
            /\ ret[v].tag = "Ok"
            /\ out[v].bytes # NoVal => out[v].bytes.t = "Bytes"
            /\ out[v].text # NoVal => out[v].text.t = "Str"

C9_Witness ==
    \E v \in Variants :
        /\ response.status = 404
        /\ response.wire = [tag |-> "Ok", val |-> <<195, 34>>]
        /\ out[v].bytes # NoVal
        /\ out[v].text # NoVal

-----------------------------------------------------------------------------
(* Properties of the methods of a TypedResponse.                           *)

\* the TypedResponse try_from_response returned to the caller of variant v
Captured(v) == ret[v].val

\* C3: into_json() returns Ok(value) for a Success disposition and Err(value)
\* for a Failure disposition, for every body, valid JSON or not.
C3_JsonChannelMatchesDisposition ==
    \A v \in Variants :
        out[v].json # NoVal => out[v].json.tag = Captured(v).result

\* C4: for a body that is not valid JSON the value into_json() returns is an
\* object with a single field, and that field holds the parse error message as
\* a string.
C4_JsonErrorIsObject ==
    \A v \in Variants :
        (out[v].json # NoVal /\ from_slice(Captured(v).body).tag = "Err") =>
            /\ out[v].json.val.t = "Object"
            /\ Len(out[v].json.val.fields) = 1
            /\ out[v].json.val.fields[1].val =
                   [t |-> "String", msg |-> to_string(from_slice(Captured(v).body).val)]

\* C5 as claimed: with a Success disposition and a body that does not
\* deserialize into T, into_result() returns the deserialization error itself,
\* not a value of the Failure type.
C5_AsClaimed ==
    \A v \in Variants :
        (/\ out[v].result # NoVal
         /\ Captured(v).result = "Ok"
         /\ from_slice_T(Captured(v).body).tag = "Err") =>
            out[v].result.val.t = "serde_json::Error"

\* C5, amended: with a Success disposition and a body that does not deserialize
\* into T, into_result() returns Err of the Failure value built from the
\* deserialization error, as it does on the Failure path; the error never
\* leaves into_result() other than inside a Failure value.
C5_DecodeErrorBecomesFailure ==
    \A v \in Variants :
        (/\ out[v].result # NoVal
         /\ \/ Captured(v).result = "Ok" /\ from_slice_T(Captured(v).body).tag = "Err"
            \/ Captured(v).result = "Err" /\ from_slice_E(Captured(v).body).tag = "Err") =>
            /\ out[v].result.tag = "Err"
            /\ out[v].result.val.t = "E"
            /\ out[v].result.val.kind = "FromJsonError"
            /\ out[v].result.val.error.t = "serde_json::Error"

C5_Witness ==
    \E v \in Variants :
        /\ response.status = 200
        /\ response.wire = [tag |-> "Ok", val |-> <<91, 93>>]
        /\ out[v].result # NoVal
        /\ out[v].result.tag = "Err"

\* C6: into_result() returns Ok of the decoded T for a Success disposition
\* whose body deserializes into T; for a Failure disposition it returns Err of
\* a Failure value, the decoded body when the body deserializes into E and the
\* value built from the deserialization error otherwise, and never Ok.
C6_ResultFollowsDisposition ==
    \A v \in Variants :
        out[v].result # NoVal =>
            /\ (Captured(v).result = "Ok" /\ from_slice_T(Captured(v).body).tag = "Ok") =>
                   /\ out[v].result.tag = "Ok"
                   /\ out[v].result.val.t = "T"
                   /\ out[v].result.val = from_slice_T(Captured(v).body).val
            /\ Captured(v).result = "Err" =>
                   /\ out[v].result.tag = "Err"
                   /\ out[v].result.val.t = "E"
                   /\ IF from_slice_E(Captured(v).body).tag = "Ok"
                      THEN out[v].result.val = from_slice_E(Captured(v).body).val
                      ELSE out[v].result.val = E_from(from_slice_E(Captured(v).body).val)
            /\ (Captured(v).body = <<49, 49>> /\ Captured(v).result = "Ok") =>
                   out[v].result.val.n = 11
            /\ (Captured(v).body = <<91, 93>> /\ Captured(v).result = "Err") =>
                   out[v].result.val.items = <<>>

C6_Witness ==
    /\ response.status = 404
    /\ response.wire = [tag |-> "Ok", val |-> <<49, 49>>]
    /\ out["blocking"].result # NoVal
    /\ out["blocking"].result.tag = "Err"
    /\ out["blocking"].result.val.kind = "FromJsonError"

\* C8: a bytes() or text() call returns a value, never an error; bytes()
\* returns the stored body; a call returns the same bytes as the call of the
\* same method before it; and the call leaves the stored body and disposition
\* as they were.
C8_ReadsRepeatAndKeepSelf ==
    [][\A v \in Variants :
          reads'[v] > reads[v] =>
              /\ typed'[v] = typed[v]
              /\ typed'[v] = Captured(v)
              /\ pc'[v] = "captured"
              /\ out'[v].bytes # NoVal =>
                     /\ out'[v].bytes.t = "Bytes"
                     /\ out'[v].bytes.bytes = typed[v].body
                     /\ out[v].bytes # NoVal => out'[v].bytes = out[v].bytes
              /\ out'[v].text # NoVal =>
                     /\ out'[v].text.t = "Str"
                     /\ out[v].text # NoVal => out'[v].text = out[v].text]_vars

C8_Witness ==
    \E v \in Variants :
        /\ reads[v] = 2
        /\ response.status = 404
        /\ response.wire = [tag |-> "Ok", val |-> <<195>>]
        /\ out[v].bytes = NoVal
        /\ out[v].text = [t |-> "Str", utf8 |-> <<239, 191, 189>>]

\* C10: once both variants have returned from try_from_response they made the
\* same calls on the response in the same order and returned the same error or
\* the same TypedResponse; into_json() and into_result() on the two
\* TypedResponses return equal results; only the asynchronous variant is ever
\* suspended, and only in the body retrieval.
C10_VariantsAgree ==
    /\ (Returned("async") /\ Returned("blocking")) =>
           /\ calls["async"] = calls["blocking"]
           /\ ret["async"].tag = ret["blocking"].tag
           /\ ret["async"].val.t = ret["blocking"].val.t
           /\ ret["async"] = ret["blocking"]
    /\ (out["async"].json # NoVal /\ out["blocking"].json # NoVal) =>
           /\ out["async"].json.tag = out["blocking"].json.tag
           /\ out["async"].json.val.t = out["blocking"].json.val.t
           /\ out["async"].json = out["blocking"].json
    /\ (out["async"].result # NoVal /\ out["blocking"].result # NoVal) =>
           /\ out["async"].result.tag = out["blocking"].result.tag
           /\ out["async"].result.val.t = out["blocking"].result.val.t
           /\ out["async"].result = out["blocking"].result
    /\ pc["blocking"] # "await"
    /\ pc["async"] = "await" =>
           /\ calls["async"][Len(calls["async"])] = "bytes"
           /\ ret["async"] = NoVal

C10_Witness ==
    /\ response.status = 404
    /\ response.wire = [tag |-> "Ok", val |-> <<91, 93>>]
    /\ out["async"].json # NoVal
    /\ out["blocking"].json = out["async"].json

====
